---- MODULE Spec2Model ----
(***************************************************************************)
(* specviz: unit-aware plotting core.                                      *)
(*   core/items.py                         DataItem, PlotDataItem          *)
(*   widgets/unit_change_dialog.py         UnitChangeDialog                *)
(*   plugins/statistics/statistics_widget.py   StatisticsWidget            *)
(* Python values are modelled as follows: a unit is its canonical string   *)
(* (Unit.to_string()), None is the string "None", a text typed in a line   *)
(* edit is a sequence of tokens (a blank " " or a word), and the result of *)
(* a call that may raise is one of "yes" / "no" / "raise".                 *)
(***************************************************************************)
EXTENDS Integers, Sequences, FiniteSets, TLC

VARIABLES
    data,       \* DataItem id -> dataset id held under DataRole
    pdi,        \* PlotDataItem id -> [data_unit, spectral_axis_unit, visible]
    plotted,    \* plot_widget.listDataItems(): sequence of PlotDataItem ids
    pw,         \* plot widget: [data_unit, spectral_axis_unit]
    dialog,     \* the UnitChangeDialog object
    rejected,   \* on_accepted calls so far that were refused on the flux unit
    selection,  \* the raw selection of the plot's region of interest
    current,    \* the statistics widget's environment: workspace, plot item
    sw,         \* StatisticsWidget: [stats, texts, status]
    call        \* the handler call that has just completed

vars == <<data, pdi, plotted, pw, dialog, rejected, selection, current, sw, call>>

None == "None"

----------------------------------------------------------------------------
\* Bounds of the model.

\* Longest list of series shown on the plot.
MaxPlotted == 2
\* The counter of refused requests saturates here.
MaxRejected == 1
\* Largest raw bound of a selection.
MaxPos == 4

\* The longest flux compute_stats is given on its own.
MaxFlux == 5

----------------------------------------------------------------------------
\* astropy.units, as far as the program uses it.

Units ==
    {"", "Angstrom", "m", "nm", "Hz", "Jy", "mJy", "K", "erg / (Angstrom cm2 s)"}

PhysicalType(unit) ==
    CASE unit = "" -> "dimensionless"
      [] unit \in {"Angstrom", "m", "nm"} -> "length"
      [] unit = "Hz" -> "frequency"
      [] unit \in {"Jy", "mJy"} -> "spectral flux density"
      [] unit = "erg / (Angstrom cm2 s)" -> "spectral flux density wav"
      [] unit = "K" -> "temperature"

\* The physical types an equivalency converts between.
EquivalencyClass(equivalency) ==
    CASE equivalency = "spectral" -> {"length", "frequency"}
      [] equivalency = "spectral_density" ->
            {"spectral flux density", "spectral flux density wav"}
      [] OTHER -> {}

\* UnitBase.is_equivalent(other, equivalencies=...)
IsEquivalent(a, b, equivalency) ==
    \/ PhysicalType(a) = PhysicalType(b)
    \/ /\ PhysicalType(a) \in EquivalencyClass(equivalency)
       /\ PhysicalType(b) \in EquivalencyClass(equivalency)

\* The named units without a prefix, in the order find_equivalent_units
\* lists them.
Registry == <<"Angstrom", "Hz", "Jy", "K", "m">>

\* UnitBase.find_equivalent_units(equivalencies=...)
FindEquivalentUnits(unit, equivalency) ==
    SelectSeq(Registry, LAMBDA x : IsEquivalent(unit, x, equivalency))

\* Unit.long_names
LongNames(unit) ==
    CASE unit = "Angstrom" -> <<"angstrom">>
      [] unit = "m" -> <<"meter">>
      [] unit = "nm" -> <<"nanometer">>
      [] unit = "Hz" -> <<"Hertz", "hertz">>
      [] unit = "Jy" -> <<"Jansky", "jansky">>
      [] unit = "mJy" -> <<"milliJansky", "millijansky">>
      [] unit = "K" -> <<"Kelvin">>
      [] OTHER -> <<>>

\* str.title()
Title(name) ==
    CASE name = "angstrom" -> "Angstrom"
      [] name = "meter" -> "Meter"
      [] name = "nanometer" -> "Nanometer"
      [] name = "milliJansky" -> "Millijansky"
      [] OTHER -> name

\* The texts a user can type into a custom-unit line edit.
Texts ==
    { <<>>, <<" ">>, <<" ", " ">>, <<"Jy">>, <<"mJy">>, <<"AA">>, <<"xq">> }

RECURSIVE LStrip(_)
LStrip(t) == IF t # <<>> /\ Head(t) = " " THEN LStrip(Tail(t)) ELSE t

RECURSIVE RStrip(_)
RStrip(t) ==
    IF t # <<>> /\ t[Len(t)] = " " THEN RStrip(SubSeq(t, 1, Len(t) - 1)) ELSE t

\* str.strip()
Strip(t) == LStrip(RStrip(t))

\* u.Unit(text).to_string(): the canonical string of the unit a text parses
\* to, or "raise" (ValueError) when it does not parse.  A text that is empty
\* after stripping is the dimensionless unit.
ParseUnit(t) ==
    LET s == Strip(t) IN
    CASE s = <<>> -> ""
      [] s = <<"Jy">> -> "Jy"
      [] s = <<"AA">> -> "Angstrom"
      [] s = <<"mJy">> -> "mJy"
      [] OTHER -> "raise"

----------------------------------------------------------------------------
\* The spectra a DataItem can hold (specutils.Spectrum1D).

Datasets == <<
    [name |-> "a", flux_unit |-> "Jy", spectral_axis_unit |-> "Angstrom",
     spectral_axis |-> <<1, 4, 7>>, flux |-> <<1, 3, 2>>],
    [name |-> "b", flux_unit |-> "K", spectral_axis_unit |-> "nm",
     spectral_axis |-> <<1, 2, 3>>, flux |-> <<0, 0, 0>>],
    [name |-> "c", flux_unit |-> "", spectral_axis_unit |-> "",
     spectral_axis |-> <<3, 5>>, flux |-> <<2, 1>>] >>

Items == 1 .. Len(Datasets)

\* DataItem.spectrum
spectrum(i) == Datasets[data[i]]

----------------------------------------------------------------------------
\* core/items.py: PlotDataItem

\* No PlotDataItem: the series is not on the plot.
NoPlotDataItem ==
    [data_unit |-> None, spectral_axis_unit |-> None, visible |-> FALSE,
     color |-> "", width |-> 0, zorder |-> 0, pen |-> [style |-> "NoPen"]]

\* The colours of flatui a series takes when none is given.
flatui == <<"#000000", "#9b59b6", "#3498db">>

\* float(color): the grey level of a colour that reads as a number, or
\* ValueError.
Float(color) ==
    IF color = "0.5" THEN [float |-> "0.5"] ELSE [float |-> "ValueError"]

\* PlotDataItem._update_pen: no pen for a series that is not visible, else
\* a pen of the stored colour, as a grey level when it reads as a number,
\* and of the stored width.
UpdatePen(p) ==
    [p EXCEPT !.pen =
        IF p.visible
        THEN [style |-> "pen",
              color |-> IF Float(p.color).float # "ValueError"
                        THEN Float(p.color) ELSE [name |-> p.color],
              width |-> p.width]
        ELSE [style |-> "NoPen"]]

\* Connections without the one of visibility_changed.
SlotsWithoutVisibility(signal) ==
    IF signal \in {"data_unit_changed", "spectral_axis_unit_changed"}
    THEN <<"set_data">>
    ELSE IF signal \in {"color_changed", "width_changed"}
    THEN <<"_update_pen">>
    ELSE <<>>

\* The slots PlotDataItem.__init__ connects to its signals (lines 80-86).
Slots(signal) ==
    IF signal \in {"data_unit_changed", "spectral_axis_unit_changed"}
    THEN <<"set_data">>
    ELSE IF signal \in {"color_changed", "width_changed", "visibility_changed"}
    THEN <<"_update_pen">>
    ELSE <<>>

\* signal.emit(): the signal and the slots it runs.
Emit(signal) == <<signal>> \o Slots(signal)

\* A colour setter that does not tell the record.
SetterTraceColorSilent(op) ==
    IF op = "data_unit" THEN Emit("data_unit_changed")
    ELSE IF op = "spectral_axis_unit" THEN Emit("spectral_axis_unit_changed")
    ELSE IF op = "reset_units"
    THEN Emit("data_unit_changed") \o Emit("spectral_axis_unit_changed")
    ELSE IF op = "color" THEN Emit("color_changed")
    ELSE IF op = "width" THEN Emit("width_changed") \o <<"emitDataChanged">>
    ELSE IF op = "zorder" THEN <<"setZValue", "emitDataChanged">>
    ELSE Emit("visibility_changed")

\* What a setter of PlotDataItem does after it stored its value, in order:
\* the signals it emits, the slots they run, and the calls it makes.
SetterTrace(op) ==
    IF op = "data_unit" THEN Emit("data_unit_changed")
    ELSE IF op = "spectral_axis_unit" THEN Emit("spectral_axis_unit_changed")
    ELSE IF op = "reset_units"
    THEN Emit("data_unit_changed") \o Emit("spectral_axis_unit_changed")
    ELSE IF op = "color" THEN Emit("color_changed") \o <<"emitDataChanged">>
    ELSE IF op = "width" THEN Emit("width_changed") \o <<"emitDataChanged">>
    ELSE IF op = "zorder" THEN <<"setZValue", "emitDataChanged">>
    ELSE Emit("visibility_changed")

\* The series once the slots of a setter have run.
Ran(p, op) ==
    IF \E k \in 1 .. Len(SetterTrace(op)) : SetterTrace(op)[k] = "_update_pen"
    THEN UpdatePen(p) ELSE p

\* PlotDataItem.color, width, zorder and visible setters
SetColor(p, value) == Ran([p EXCEPT !.color = value], "color")

SetWidth(p, value) == Ran([p EXCEPT !.width = value], "width")

SetZorder(p, value) == Ran([p EXCEPT !.zorder = value], "zorder")

SetVisible(p, value) == Ran([p EXCEPT !.visible = value], "visible")

\* PlotDataItem.__init__: the display units are the record's native units
\* and the series is not visible.
PlotDataItemInit(i) ==
    UpdatePen([data_unit |-> spectrum(i).flux_unit,
               spectral_axis_unit |-> spectrum(i).spectral_axis_unit,
               visible |-> FALSE,
               color |-> flatui[i], width |-> 1, zorder |-> 0,
               pen |-> [style |-> "NoPen"]])

\* A setter that ignores a falsy value.
SetDataUnitIfTruthy(p, value) ==
    IF value \in {"", None} THEN p ELSE [p EXCEPT !.data_unit = value]

\* PlotDataItem.data_unit setter
SetDataUnit(p, value) == [p EXCEPT !.data_unit = value]

\* PlotDataItem.spectral_axis_unit setter
SetSpectralAxisUnit(p, value) == [p EXCEPT !.spectral_axis_unit = value]

\* A reset of the flux unit alone.
ResetUnitsDataOnly(p, i) == SetDataUnit(p, spectrum(i).flux_unit)

\* PlotDataItem.reset_units
ResetUnits(p, i) ==
    SetSpectralAxisUnit(SetDataUnit(p, spectrum(i).flux_unit),
                        spectrum(i).spectral_axis_unit)

\* Quantity.to(unit, equivalencies=...) returns (TRUE) when the two units
\* are equivalent and raises (FALSE) otherwise.
Converts(from, to, equivalency) ==
    /\ to \in Units
    /\ IsEquivalent(from, to, equivalency)

\* PlotDataItem.spectral_axis converts the native axis to the display unit:
\* TRUE when the property returns, FALSE when it raises.
SpectralAxisReturns(p, i) ==
    Converts(spectrum(i).spectral_axis_unit, p.spectral_axis_unit, "spectral")

\* PlotDataItem.flux
FluxReturns(p, i) ==
    /\ SpectralAxisReturns(p, i)
    /\ Converts(spectrum(i).flux_unit, p.data_unit, "spectral_density")

\* The roles a DataItem stores: the name and identifier given to __init__
\* and the spectrum, as the index of a dataset.
DataItemRoles(dat, i) ==
    [NameRole |-> Datasets[i].name, IdRole |-> i, DataRole |-> dat[i]]

\* DataItem.set_data: setData(data, DataRole)
SetData(roles, ds) == [roles EXCEPT !.DataRole = ds]

\* A flux that is the one the record was constructed with.
DataItemFluxCached(i) == Datasets[i].flux

\* DataItem.flux and DataItem.spectral_axis
DataItemFlux(i) == spectrum(i).flux

DataItemSpectralAxis(i) == spectrum(i).spectral_axis

\* The size of a unit in the smallest unit of its physical type.
Factor(unit) ==
    CASE unit = "nm" -> 10
      [] unit = "Jy" -> 1000
      [] OTHER -> 1

\* Quantity.to on one value: the fraction value * Factor(from) / Factor(to)
\* between units of one physical type, and c / wavelength from a length to
\* a frequency.
ConvertValue(v, from, to) ==
    IF PhysicalType(from) = PhysicalType(to)
    THEN <<v * Factor(from), Factor(to)>>
    ELSE [c_over |-> v * Factor(from)]

Raised == [raised |-> TRUE, value |-> <<>>]

\* PlotDataItem.spectral_axis: the record's axis in the display unit
SpectralAxis(p, i) ==
    IF ~SpectralAxisReturns(p, i) THEN Raised
    ELSE [raised |-> FALSE,
          value |-> [k \in 1 .. Len(DataItemSpectralAxis(i)) |->
                        ConvertValue(DataItemSpectralAxis(i)[k],
                                     spectrum(i).spectral_axis_unit,
                                     p.spectral_axis_unit)]]

\* PlotDataItem.flux: the record's flux in the display unit
Flux(p, i) ==
    IF ~FluxReturns(p, i) THEN Raised
    ELSE [raised |-> FALSE,
          value |-> [k \in 1 .. Len(DataItemFlux(i)) |->
                        ConvertValue(DataItemFlux(i)[k],
                                     spectrum(i).flux_unit, p.data_unit)]]

\* PlotDataItem.is_data_unit_compatible
IsDataUnitCompatible(p, i, unit) ==
    IF spectrum(i).flux_unit = "" THEN "yes"
    ELSE IF unit = None THEN "no"
    ELSE IF ~SpectralAxisReturns(p, i) THEN "raise"
    ELSE IF IsEquivalent(spectrum(i).flux_unit, unit, "spectral_density")
         THEN "yes" ELSE "no"

\* PlotDataItem.is_spectral_axis_unit_compatible
IsSpectralAxisUnitCompatible(p, i, unit) ==
    IF spectrum(i).spectral_axis_unit = "" THEN "yes"
    ELSE IF unit = None THEN "no"
    ELSE IF IsEquivalent(spectrum(i).spectral_axis_unit, unit, "spectral")
         THEN "yes" ELSE "no"

----------------------------------------------------------------------------
\* The plot widget: the list of series and the plot-wide display units.

Unset == [data_unit |-> "", spectral_axis_unit |-> ""]

\* plot_widget.data_unit = value: every series of the plot takes the unit.
PlotSetDataUnit(P, items, value) ==
    [i \in Items |->
        IF \E k \in 1 .. Len(items) : items[k] = i
        THEN SetDataUnit(P[i], value) ELSE P[i]]

\* plot_widget.spectral_axis_unit = value
PlotSetSpectralAxisUnit(P, items, value) ==
    [i \in Items |->
        IF \E k \in 1 .. Len(items) : items[k] = i
        THEN SetSpectralAxisUnit(P[i], value) ELSE P[i]]

InList(items, i) == \E k \in 1 .. Len(items) : items[k] = i

Remove(items, i) == SelectSeq(items, LAMBDA x : x # i)

----------------------------------------------------------------------------
\* widgets/unit_change_dialog.py: UnitChangeDialog

NoDialog ==
    [state |-> "none", ok_enabled |-> FALSE,
     data_unit_equivalencies |-> <<>>,
     data_unit_equivalencies_titles |-> <<>>,
     spectral_axis_unit_equivalencies |-> <<>>,
     spectral_axis_unit_equivalencies_titles |-> <<>>,
     current_data_unit |-> "", current_spectral_axis_unit |-> ""]

\* The title shown for a unit: the first long name, title-cased, or the
\* unit's string when it has no long name.
UnitTitle(unit) ==
    IF Len(LongNames(unit)) > 0 THEN Title(LongNames(unit)[1]) ELSE unit

RECURSIVE Titles(_)
Titles(units) ==
    IF units = <<>> THEN <<>>
    ELSE <<UnitTitle(Head(units))>> \o Titles(Tail(units))

Contains(seq, x) == \E k \in 1 .. Len(seq) : seq[k] = x

\* list.index(x): the first position of x
Index(seq, x) == CHOOSE k \in 1 .. Len(seq) :
                    seq[k] = x /\ \A j \in 1 .. k - 1 : seq[j] # x

\* The plot's current unit joins the candidates whatever they list.
WithCurrentAlways(units, unit) == Append(units, unit)

\* Lines 63-67 and 79-83: the plot's current unit joins the candidates when
\* neither the unit nor its title is listed.
WithCurrent(units, unit) ==
    IF ~Contains(units, unit) /\ ~Contains(Titles(units), UnitTitle(unit))
    THEN Append(units, unit) ELSE units

WithCurrentTitles(units, unit) ==
    IF ~Contains(units, unit) /\ ~Contains(Titles(units), UnitTitle(unit))
    THEN Append(Titles(units), UnitTitle(unit)) ELSE Titles(units)

\* The flux candidates are enumerated from the plot's spectral axis unit.
DataUnitEquivalencies(P) ==
    FindEquivalentUnits(P.spectral_axis_unit, "spectral_density")

SpectralAxisUnitEquivalencies(P) ==
    FindEquivalentUnits(P.spectral_axis_unit, "spectral")

\* The condition of line 37: both plot units set and a series given.
UnitsAreSet(P, item) ==
    /\ item # 0
    /\ P.data_unit \notin {"", None}
    /\ P.spectral_axis_unit \notin {"", None}

\* UnitChangeDialog.__init__ returns (TRUE) or raises (FALSE): without the
\* plot units the title lists were never created when "Custom" is appended
\* (line 96); spectral_density(plot_data_item.spectral_axis) raises when the
\* series' axis does not convert; an empty candidate list has no [0].
InitReturns(P, D, item) ==
    /\ UnitsAreSet(P, item)
    /\ SpectralAxisReturns(D[item], item)
    /\ DataUnitEquivalencies(P) # <<>>
    /\ SpectralAxisUnitEquivalencies(P) # <<>>

\* UnitChangeDialog.__init__ and setup_ui
DialogInit(P, D, item) ==
    IF ~InitReturns(P, D, item) THEN [NoDialog EXCEPT !.state = "raised"]
    ELSE
    [state |-> "open", ok_enabled |-> TRUE,
     data_unit_equivalencies |->
        WithCurrent(DataUnitEquivalencies(P), P.data_unit),
     data_unit_equivalencies_titles |->
        Append(WithCurrentTitles(DataUnitEquivalencies(P), P.data_unit),
               "Custom"),
     spectral_axis_unit_equivalencies |->
        WithCurrent(SpectralAxisUnitEquivalencies(P), P.spectral_axis_unit),
     spectral_axis_unit_equivalencies_titles |->
        Append(WithCurrentTitles(SpectralAxisUnitEquivalencies(P),
                                 P.spectral_axis_unit), "Custom"),
     current_data_unit |-> UnitTitle(P.data_unit),
     current_spectral_axis_unit |-> UnitTitle(P.spectral_axis_unit)]

\* on_line_custom_units_change: the text a line edit holds once the handler
\* has run on the text typed; a single blank is replaced by the empty text.
OnLineCustomUnitsChange(t) == IF t = <<" ">> THEN <<>> ELSE t

LineTexts == { OnLineCustomUnitsChange(t) : t \in Texts }

\* What on_accepted reads from the widgets: the texts of the two combo boxes
\* and of the two line edits.  A line edit is shown, and read, only while
\* its combo box says "Custom"; a hidden one is taken as empty.
Elements(seq) == { seq[k] : k \in 1 .. Len(seq) }

AxisInputs(titles) ==
    { <<a, s>> \in Elements(titles) \X LineTexts : a = "Custom" \/ s = <<>> }

Requests(d) ==
    { [units |-> f[1], custom_units |-> f[2],
       spectral |-> x[1], custom_spectral |-> x[2]] :
        f \in AxisInputs(d.data_unit_equivalencies_titles),
        x \in AxisInputs(d.spectral_axis_unit_equivalencies_titles) }

\* Lines 206-222 and 252-268: the unit of a custom text, or why there is none.
CustomUnit(text) ==
    IF ParseUnit(text) = "raise" THEN [status |-> "invalid", unit |-> None]
    ELSE IF text \in {<<>>, <<" ">>} THEN [status |-> "empty", unit |-> None]
    ELSE [status |-> "ok", unit |-> ParseUnit(text)]

\* Lines 236-238 and 282-284: the unit listed under a title.
ListedUnit(units, titles, title) ==
    [status |-> "ok", unit |-> units[Index(titles, title)]]

\* Lines 204-238: the flux unit asked for.
DataUnitFormatted(d, req) ==
    IF req.units = "Custom" THEN CustomUnit(req.custom_units)
    ELSE ListedUnit(d.data_unit_equivalencies,
                    d.data_unit_equivalencies_titles, req.units)

\* Lines 250-284: the spectral axis unit asked for.
SpectralAxisUnitFormatted(d, req) ==
    IF req.spectral = "Custom" THEN CustomUnit(req.custom_spectral)
    ELSE ListedUnit(d.spectral_axis_unit_equivalencies,
                    d.spectral_axis_unit_equivalencies_titles, req.spectral)

\* A loop that asks the first series only.
DataUnitCheckFirstOnly(D, items, unit) ==
    IF items = <<>> THEN "yes"
    ELSE IsDataUnitCompatible(D[Head(items)], Head(items), unit)

\* Lines 225-229 and 241-245: the loop over listDataItems(), in list order;
\* it stops at the first series that is not compatible, or that raises.
RECURSIVE DataUnitCheck(_, _, _)
DataUnitCheck(D, items, unit) ==
    IF items = <<>> THEN "yes"
    ELSE LET r == IsDataUnitCompatible(D[Head(items)], Head(items), unit) IN
         IF r = "yes" THEN DataUnitCheck(D, Tail(items), unit) ELSE r

\* Lines 271-275 and 287-291
RECURSIVE SpectralAxisUnitCheck(_, _, _)
SpectralAxisUnitCheck(D, items, unit) ==
    IF items = <<>> THEN "yes"
    ELSE LET r == IsSpectralAxisUnitCompatible(D[Head(items)], Head(items), unit)
         IN IF r = "yes" THEN SpectralAxisUnitCheck(D, Tail(items), unit)
            ELSE r

\* The outcome of one axis of on_accepted: "applied", or why not.
AxisOutcome(resolved, check) ==
    IF resolved.status # "ok" THEN resolved.status
    ELSE IF check = "no" THEN "incompatible"
    ELSE IF check = "raise" THEN "raise"
    ELSE "applied"

\* Lines 204-248: the flux half of on_accepted.
FluxOutcome(d, req, D, items) ==
    AxisOutcome(DataUnitFormatted(d, req),
                DataUnitCheck(D, items, DataUnitFormatted(d, req).unit))

\* A spectral half that runs whatever the flux half did.
SpectralOutcomeAlways(d, req, D, items) ==
    AxisOutcome(SpectralAxisUnitFormatted(d, req),
                SpectralAxisUnitCheck(D, items,
                    SpectralAxisUnitFormatted(d, req).unit))

\* Lines 250-294: the spectral half, reached only when the flux half applied.
SpectralOutcome(d, req, D, items) ==
    IF FluxOutcome(d, req, D, items) # "applied" THEN "skipped"
    ELSE AxisOutcome(SpectralAxisUnitFormatted(d, req),
                     SpectralAxisUnitCheck(D, items,
                         SpectralAxisUnitFormatted(d, req).unit))

\* The value on_accepted returns.
Returned(flux, spectral) ==
    IF flux = "raise" \/ spectral = "raise" THEN "raised"
    ELSE IF flux = "applied" /\ spectral = "applied" THEN "True"
    ELSE "False"

----------------------------------------------------------------------------
\* plugins/statistics/statistics_widget.py: regions and statistics.
\* A quantity is [value, unit]; a region is [present, lower, upper], and
\* None is the region that is not present.

Quantity(v, unit) == [value |-> v, unit |-> unit]

\* The raw selection: no region of interest, two bounds that are no
\* Quantity ("plain"), or a Quantity of two values p0, p1 with a unit.
NoSelection == [kind |-> "none", unit |-> "", p0 |-> 0, p1 |-> 0]

\* The keys of StatisticsWidget.stat_widgets
StatKeys ==
    {"mean", "median", "stddev", "rms", "snr", "total", "maxval", "minval"}

NoRegion ==
    [present |-> FALSE, lower |-> Quantity(0, ""), upper |-> Quantity(0, "")]

\* SpectralRegion(lower, upper)
SpectralRegion(lower, upper) ==
    [present |-> TRUE, lower |-> lower, upper |-> upper]

\* pos_to_spectral_region without the swap of reversed bounds.
pos_to_spectral_region_no_swap(pos) ==
    IF pos.kind # "quantity" THEN NoRegion
    ELSE IF pos.unit = "" \/ pos.p0 = pos.p1 THEN NoRegion
    ELSE SpectralRegion(Quantity(pos.p0, pos.unit), Quantity(pos.p1, pos.unit))

\* pos_to_spectral_region without the test for equal bounds.
pos_to_spectral_region_no_equal(pos) ==
    IF pos.kind # "quantity" THEN NoRegion
    ELSE IF pos.unit = "" THEN NoRegion
    ELSE IF pos.p0 > pos.p1
         THEN SpectralRegion(Quantity(pos.p1, pos.unit),
                             Quantity(pos.p0, pos.unit))
    ELSE SpectralRegion(Quantity(pos.p0, pos.unit), Quantity(pos.p1, pos.unit))

\* StatisticsWidget.pos_to_spectral_region
pos_to_spectral_region(pos) ==
    IF pos.kind # "quantity" THEN NoRegion
    ELSE IF pos.unit = "" \/ pos.p0 = pos.p1 THEN NoRegion
    ELSE IF pos.p0 > pos.p1
         THEN SpectralRegion(Quantity(pos.p1, pos.unit),
                             Quantity(pos.p0, pos.unit))
    ELSE SpectralRegion(Quantity(pos.p0, pos.unit), Quantity(pos.p1, pos.unit))

\* StatisticsWidget._get_workspace_region
get_workspace_region(pos) ==
    IF pos.kind # "none" THEN pos_to_spectral_region(pos) ELSE NoRegion

\* StatisticsWidget._workspace_has_region: the region of interest exists
\* exactly when it reports bounds.
workspace_has_region(pos) == pos.kind # "none"

\* A check that lets wavelengths and frequencies stand for each other.
check_unit_compatibility_spectral(spec, region) ==
    IsEquivalent(spec.spectral_axis_unit, region.lower.unit, "spectral")

\* check_unit_compatibility
check_unit_compatibility(spec, region) ==
    IsEquivalent(spec.spectral_axis_unit, region.lower.unit, "none")

\* The value of one unit in the smallest unit of its physical type.
Scale(unit) == IF unit = "nm" THEN 10 ELSE 1

\* A quantity's value in the smallest unit of its physical type: how
\* astropy compares two quantities of equivalent units.
Base(q) == q.value * Scale(q.unit)

RECURSIVE SeqMax(_)
SeqMax(seq) ==
    IF Len(seq) = 1 THEN seq[1]
    ELSE IF Head(seq) >= SeqMax(Tail(seq)) THEN Head(seq)
    ELSE SeqMax(Tail(seq))

RECURSIVE SeqMin(_)
SeqMin(seq) ==
    IF Len(seq) = 1 THEN seq[1]
    ELSE IF Head(seq) <= SeqMin(Tail(seq)) THEN Head(seq)
    ELSE SeqMin(Tail(seq))

\* spectrum.spectral_axis.max() and .min()
AxisMax(spec) == Quantity(SeqMax(spec.spectral_axis), spec.spectral_axis_unit)

AxisMin(spec) == Quantity(SeqMin(spec.spectral_axis), spec.spectral_axis_unit)

\* A clip_region that clips the lower bound only.
clip_region_lower_only(spec, region) ==
    IF Base(region.lower) > Base(AxisMax(spec))
        \/ Base(region.upper) < Base(AxisMin(spec))
    THEN NoRegion
    ELSE [present |-> TRUE,
          lower |-> IF Base(region.lower) < Base(AxisMin(spec))
                    THEN AxisMin(spec) ELSE region.lower,
          upper |-> region.upper]

\* clip_region
clip_region(spec, region) ==
    IF Base(region.lower) > Base(AxisMax(spec))
        \/ Base(region.upper) < Base(AxisMin(spec))
    THEN NoRegion
    ELSE [present |-> TRUE,
          lower |-> IF Base(region.lower) < Base(AxisMin(spec))
                    THEN AxisMin(spec) ELSE region.lower,
          upper |-> IF Base(region.upper) > Base(AxisMax(spec))
                    THEN AxisMax(spec) ELSE region.upper]

\* The ceiling and the floor of n / d, for d > 0.
CeilDiv(n, d) == -((-n) \div d)

FloorDiv(n, d) == n \div d

\* The pixel of a world coordinate on the spectrum's evenly sampled axis,
\* as the pair <<numerator, denominator>>.
WorldToPixel(spec, q) ==
    << Base(q) - Base(Quantity(spec.spectral_axis[1], spec.spectral_axis_unit)),
       Base(Quantity(spec.spectral_axis[2] - spec.spectral_axis[1],
                     spec.spectral_axis_unit)) >>

\* SpectralRegion.to_pixel: the first sample at or above the lower bound and
\* the last at or below the upper bound, counted from 0.
to_pixel(spec, region) ==
    << CeilDiv(WorldToPixel(spec, region.lower)[1],
               WorldToPixel(spec, region.lower)[2]),
       FloorDiv(WorldToPixel(spec, region.upper)[1],
                WorldToPixel(spec, region.upper)[2]) >>

\* SpectralRegion.extract raises ValueError unless left < right
ExtractRaises(spec, region) ==
    to_pixel(spec, region)[1] >= to_pixel(spec, region)[2]

\* SpectralRegion.extract: spectrum[left:right]
extract(spec, region) ==
    [spec EXCEPT
        !.spectral_axis = SubSeq(spec.spectral_axis,
                                 to_pixel(spec, region)[1] + 1,
                                 to_pixel(spec, region)[2]),
        !.flux = SubSeq(spec.flux, to_pixel(spec, region)[1] + 1,
                        to_pixel(spec, region)[2])]

RECURSIVE Sum(_)
Sum(seq) == IF seq = <<>> THEN 0 ELSE Head(seq) + Sum(Tail(seq))

\* flux.dot(flux)
Dot(seq) == Sum([k \in 1 .. Len(seq) |-> seq[k] * seq[k]])

\* The k-th smallest element.
Ranked(seq, k) ==
    CHOOSE x \in Elements(seq) :
        /\ Cardinality({j \in 1 .. Len(seq) : seq[j] < x}) < k
        /\ Cardinality({j \in 1 .. Len(seq) : seq[j] <= x}) >= k

\* np.median, as a fraction over 2
Median(seq) ==
    IF Len(seq) % 2 = 1
    THEN <<2 * Ranked(seq, (Len(seq) + 1) \div 2), 2>>
    ELSE <<Ranked(seq, Len(seq) \div 2) + Ranked(seq, Len(seq) \div 2 + 1), 2>>

\* The sum of the samples in place of the trapezoidal rule.
TrapzAsSum(seq) == <<2 * Sum(seq), 2>>

\* np.trapz with unit spacing, as a fraction over 2
Trapz(seq) ==
    <<Sum([k \in 1 .. Len(seq) - 1 |-> seq[k] + seq[k + 1]]), 2>>

\* compute_stats.  A fraction is <<numerator, denominator>>; a square root
\* is given by the fraction under the root, and snr by the two it divides.
compute_stats(spec) ==
    [mean |-> <<Sum(spec.flux), Len(spec.flux)>>,
     median |-> Median(spec.flux),
     stddev |-> [sqrt |-> <<Len(spec.flux) * Dot(spec.flux)
                              - Sum(spec.flux) * Sum(spec.flux),
                            Len(spec.flux) * Len(spec.flux)>>],
     rms |-> [sqrt |-> <<Dot(spec.flux), Len(spec.flux)>>],
     snr |-> [mean |-> <<Sum(spec.flux), Len(spec.flux)>>,
              rms |-> [sqrt |-> <<Dot(spec.flux), Len(spec.flux)>>]],
     total |-> Trapz(spec.flux),
     maxval |-> SeqMax(spec.flux),
     minval |-> SeqMin(spec.flux)]

\* format_float_text: the text shown for a value
format_float_text(v) == <<v>>

\* StatisticsWidget._clear_stat_widgets
clear_stat_widgets == [k \in StatKeys |-> <<>>]

\* StatisticsWidget._update_stat_widgets
update_stat_widgets(stats) ==
    [k \in StatKeys |->
        IF k \in DOMAIN stats THEN format_float_text(stats[k]) ELSE <<>>]

\* "{:0.5g}".format(quantity)
FormatQuantity(q) == <<ToString(q.value), q.unit>>

\* StatisticsWidget._get_target_name; item 0 is no current item.
get_target_name(item, name, pos) ==
    IF item = 0 THEN <<>>
    ELSE IF ~get_workspace_region(pos).present THEN <<"Data: ", name>>
    ELSE <<"Data: ", name, "Region Max: ">>
            \o FormatQuantity(get_workspace_region(pos).upper)
            \o <<"Region Min: ">>
            \o FormatQuantity(get_workspace_region(pos).lower)

\* The messages update_statistics writes when it computes nothing.
StatusOf(outcome) ==
    CASE outcome = "no data" -> <<"No data selected.">>
      [] outcome = "incompatible units" ->
            <<"Region units are not compatible with selected data's spectral axis units.">>
      [] outcome = "out of bound" -> <<"Region out of bound.">>
      [] outcome = "single value" -> <<"Region over single value.">>
      [] outcome = "extraction" ->
            <<"Region could not be extracted from target data.">>
      [] outcome = "no units" -> <<"Region has no units">>

\* How a call of update_statistics ends (lines 211-252): the outcome and the
\* helpers it called on the way.
Outcome(cur, visible, has_spec, spec, pos) ==
    LET region == get_workspace_region(pos)
        clipped == clip_region(spec, region)
        all == {"check_unit_compatibility", "clip_region", "to_pixel", "extract"}
    IN
    IF cur.plot_item = 0 THEN [outcome |-> "no plot item", called |-> {}]
    ELSE IF ~visible THEN [outcome |-> "not visible", called |-> {}]
    ELSE IF ~has_spec THEN [outcome |-> "no data", called |-> {}]
    ELSE IF region.present
    THEN
        IF ~check_unit_compatibility(spec, region)
        THEN [outcome |-> "incompatible units",
              called |-> {"check_unit_compatibility"}]
        ELSE IF ~clipped.present
        THEN [outcome |-> "out of bound",
              called |-> {"check_unit_compatibility", "clip_region"}]
        ELSE IF to_pixel(spec, clipped)[1] = to_pixel(spec, clipped)[2]
        THEN [outcome |-> "single value", called |-> all \ {"extract"}]
        ELSE IF ExtractRaises(spec, clipped)
        THEN [outcome |-> "extraction", called |-> all]
        ELSE [outcome |-> "region", called |-> all]
    ELSE IF workspace_has_region(pos)
         THEN [outcome |-> "no units", called |-> {}]
    ELSE [outcome |-> "whole", called |-> {}]

Computes(outcome) == outcome \in {"region", "whole"}

\* The early returns of lines 211-216 write no status.
WritesStatus(outcome) == outcome \notin {"no plot item", "not visible"}

\* The spectrum the statistics are computed from (lines 242 and 252).
Target(outcome, spec, pos) ==
    IF outcome = "region"
    THEN extract(spec, clip_region(spec, get_workspace_region(pos)))
    ELSE spec

\* An update_statistics whose "single value" branch sets the status and
\* returns without clearing.
update_statistics_no_clear(W, cur, visible, has_spec, spec, pos) ==
    LET o == Outcome(cur, visible, has_spec, spec, pos).outcome
        stats == compute_stats(Target(o, spec, pos))
    IN
    IF Computes(o)
    THEN [stats |-> stats,
          texts |-> update_stat_widgets(stats),
          status |-> get_target_name(cur.plot_item, spec.name, pos)]
    ELSE IF o = "single value"
    THEN [W EXCEPT !.status = StatusOf(o)]
    ELSE [stats |-> <<>>,
          texts |-> clear_stat_widgets,
          status |-> IF WritesStatus(o) THEN StatusOf(o) ELSE W.status]

\* An update_statistics whose early returns empty the status as well.
update_statistics_clear_status(W, cur, visible, has_spec, spec, pos) ==
    LET o == Outcome(cur, visible, has_spec, spec, pos).outcome
        stats == compute_stats(Target(o, spec, pos))
    IN
    IF Computes(o)
    THEN [stats |-> stats,
          texts |-> update_stat_widgets(stats),
          status |-> get_target_name(cur.plot_item, spec.name, pos)]
    ELSE [stats |-> <<>>,
          texts |-> clear_stat_widgets,
          status |-> IF WritesStatus(o) THEN StatusOf(o) ELSE <<>>]

\* StatisticsWidget.update_statistics: the widget after the call.
update_statistics(W, cur, visible, has_spec, spec, pos) ==
    LET o == Outcome(cur, visible, has_spec, spec, pos).outcome
        stats == compute_stats(Target(o, spec, pos))
    IN
    IF Computes(o)
    THEN [stats |-> stats,
          texts |-> update_stat_widgets(stats),
          status |-> get_target_name(cur.plot_item, spec.name, pos)]
    ELSE [stats |-> <<>>,
          texts |-> clear_stat_widgets,
          status |-> IF WritesStatus(o) THEN StatusOf(o) ELSE W.status]

\* The record of a call of update_statistics.
UpdateCall(cur, visible, has_spec, spec, pos) ==
    LET o == Outcome(cur, visible, has_spec, spec, pos) IN
    [op |-> "update_statistics",
     outcome |-> o.outcome,
     called |-> o.called,
     writes |-> IF WritesStatus(o.outcome) THEN 1 ELSE 0,
     again |-> FALSE,
     pos |-> pos,
     clipped |-> IF "clip_region" \in o.called
                 THEN clip_region(spec, get_workspace_region(pos))
                 ELSE NoRegion,
     idx |-> IF "to_pixel" \in o.called
             THEN to_pixel(spec, clip_region(spec, get_workspace_region(pos)))
             ELSE <<>>]

\* A clip that writes through to the bounds the selection holds.
selected_region_bounds_clipped(cur, visible, has_spec, spec, pos) ==
    LET o == Outcome(cur, visible, has_spec, spec, pos)
        c == clip_region(spec, get_workspace_region(pos))
    IN IF "clip_region" \in o.called /\ c.present
            /\ c.lower.unit = pos.unit /\ c.upper.unit = pos.unit
       THEN [pos EXCEPT !.p0 = c.lower.value, !.p1 = c.upper.value]
       ELSE pos

\* The raw selection after a call of update_statistics: the region that
\* clip_region assigns to (lines 42-45) is the object built at line 175 for
\* this call, so the bounds the selection holds are the ones it had.
selected_region_bounds(cur, visible, has_spec, spec, pos) == pos

----------------------------------------------------------------------------
\* State after construction, and the operations.

NoCall == [op |-> "none"]

\* StatisticsWidget.__init__: no stats, empty line edits, empty status.
StatisticsWidgetInit ==
    [stats |-> <<>>, texts |-> [k \in StatKeys |-> <<>>], status |-> <<>>]

Init ==
    /\ data = [i \in Items |-> i]
    /\ pdi = [i \in Items |-> NoPlotDataItem]
    /\ plotted = <<>>
    /\ pw = Unset
    /\ dialog = NoDialog
    /\ rejected = 0
    /\ selection = NoSelection
    /\ current = [plot_item |-> 0]
    /\ sw = StatisticsWidgetInit
    /\ call = NoCall

\* The visible flag of the current plot item.
CurrentVisible(cur, P) == cur.plot_item # 0 /\ P[cur.plot_item].visible

\* data_item.spectrum of the current plot item (any spectrum when there is
\* no plot item: it is not read then).
CurrentSpectrum(cur, dat) ==
    IF cur.plot_item = 0 THEN Datasets[1]
    ELSE [Datasets[dat[cur.plot_item]] EXCEPT
            !.name = DataItemRoles(dat, cur.plot_item).NameRole]

\* update_statistics runs as the slot of the signal just emitted, on the
\* state the event left.
Updated(cur, P, dat, pos) ==
    /\ sw' = update_statistics(sw, cur, CurrentVisible(cur, P),
                               cur.plot_item # 0, CurrentSpectrum(cur, dat), pos)
    /\ call' = UpdateCall(cur, CurrentVisible(cur, P), cur.plot_item # 0,
                          CurrentSpectrum(cur, dat), pos)
    /\ selection' = selected_region_bounds(cur, CurrentVisible(cur, P),
                        cur.plot_item # 0, CurrentSpectrum(cur, dat), pos)

\* A spectrum is added to the plot: a PlotDataItem is made for it, a plot
\* without units takes the units of the series, and plot_added is emitted.
AddPlot(i) ==
    /\ ~InList(plotted, i)
    /\ Len(plotted) < MaxPlotted
    /\ dialog.state # "open"
    /\ pdi' = [pdi EXCEPT ![i] = PlotDataItemInit(i)]
    /\ plotted' = Append(plotted, i)
    /\ pw' = IF pw = Unset
             THEN [data_unit |-> spectrum(i).flux_unit,
                   spectral_axis_unit |-> spectrum(i).spectral_axis_unit]
             ELSE pw
    /\ Updated(current, pdi', data, selection)
    /\ UNCHANGED <<data, dialog, rejected, current>>

\* A series is removed from the plot, its PlotDataItem is dropped, and
\* plot_removed is emitted.
RemovePlot(i) ==
    /\ InList(plotted, i)
    /\ dialog.state # "open"
    /\ pdi' = [pdi EXCEPT ![i] = NoPlotDataItem]
    /\ plotted' = Remove(plotted, i)
    /\ current' = IF current.plot_item = i THEN [plot_item |-> 0] ELSE current
    /\ Updated(current', pdi', data, selection)
    /\ UNCHANGED <<data, pw, dialog, rejected>>

\* UnitChangeDialog(plot_widget, plot_data_item): item 0 is no series.
OpenDialog(item) ==
    /\ dialog.state # "open"
    /\ item = 0 \/ InList(plotted, item)
    /\ dialog' = DialogInit(pw, pdi, item)
    /\ call' = [op |-> "UnitChangeDialog", item |-> item, pw |-> pw]
    /\ UNCHANGED <<data, pdi, plotted, pw, rejected, selection, current, sw>>

Closed == [NoDialog EXCEPT !.state = "closed"]

\* The spectral branch assigns the flux property.
AcceptedPlotWrongAxis(d, req, flux, spectral) ==
    [data_unit |->
        IF spectral = "applied" THEN SpectralAxisUnitFormatted(d, req).unit
        ELSE IF flux = "applied" THEN DataUnitFormatted(d, req).unit
        ELSE pw.data_unit,
     spectral_axis_unit |-> pw.spectral_axis_unit]

\* The plot units and the series after on_accepted, given the two outcomes.
AcceptedPlot(d, req, flux, spectral) ==
    [data_unit |->
        IF flux = "applied" THEN DataUnitFormatted(d, req).unit
        ELSE pw.data_unit,
     spectral_axis_unit |->
        IF spectral = "applied" THEN SpectralAxisUnitFormatted(d, req).unit
        ELSE pw.spectral_axis_unit]

AcceptedItems(d, req, flux, spectral) ==
    LET D1 == IF flux = "applied"
              THEN PlotSetDataUnit(pdi, plotted,
                                   DataUnitFormatted(d, req).unit)
              ELSE pdi
    IN IF spectral = "applied"
       THEN PlotSetSpectralAxisUnit(D1, plotted,
                                    SpectralAxisUnitFormatted(d, req).unit)
       ELSE D1

\* UnitChangeDialog.on_accepted: the OK button of an open dialog is clicked.
on_accepted(req) ==
    /\ dialog.state = "open"
    /\ dialog.ok_enabled
    /\ LET flux == FluxOutcome(dialog, req, pdi, plotted)
           spectral == SpectralOutcome(dialog, req, pdi, plotted)
       IN /\ pw' = AcceptedPlot(dialog, req, flux, spectral)
          /\ pdi' = AcceptedItems(dialog, req, flux, spectral)
          /\ dialog' = IF Returned(flux, spectral) = "raised" THEN dialog
                       ELSE Closed
          /\ rejected' = IF flux = "incompatible" /\ rejected < MaxRejected
                         THEN rejected + 1 ELSE rejected
          /\ call' = [op |-> "on_accepted", ret |-> Returned(flux, spectral),
                      req |-> req, dialog |-> dialog,
                      pw |-> pw, pdi |-> pdi]
    /\ UNCHANGED <<data, plotted, selection, current, sw>>

\* DataItem.set_data: the spectrum held by the record is replaced.
set_data(i, ds) ==
    /\ data[i] # ds
    /\ data' = [data EXCEPT ![i] = SetData(DataItemRoles(data, i), ds).DataRole]
    /\ call' = [op |-> "set_data", item |-> i, value |-> ds,
                before |-> DataItemRoles(data, i),
                after |-> SetData(DataItemRoles(data, i), ds)]
    /\ UNCHANGED <<pdi, plotted, pw, dialog, rejected, selection, current, sw>>

\* The series the statistics are followed on, and the spectra set_data
\* gives its record.
StatItems == {1}

StatData == {1, 2}

\* UnitChangeDialog.on_canceled
on_canceled ==
    /\ dialog.state = "open"
    /\ dialog' = Closed
    /\ call' = NoCall
    /\ UNCHANGED <<data, pdi, plotted, pw, rejected, selection, current, sw>>

NextDialog ==
    \/ \E i \in Items : AddPlot(i)
    \/ \E i \in Items : RemovePlot(i)
    \/ \E i \in Items \cup {0} : OpenDialog(i)
    \/ \E req \in Requests(dialog) : on_accepted(req)
    \/ on_canceled

\* The unit-change dialog on a plot whose series come and go.
SpecDialog == Init /\ [][NextDialog]_vars

----------------------------------------------------------------------------
\* The events the statistics widget listens to, and those it does not.

\* The selections a user can drag: every pair of bounds up to MaxPos in
\* Angstrom, and a few pairs in nm, in Hz, without a unit and without being
\* a Quantity.
Selections ==
    { [kind |-> "quantity", unit |-> "Angstrom", p0 |-> a, p1 |-> b] :
        a \in 0 .. MaxPos, b \in 0 .. MaxPos }
    \cup { [kind |-> "quantity", unit |-> "nm", p0 |-> a, p1 |-> b] :
        a \in 0 .. 2, b \in 0 .. 2 }
    \cup { [kind |-> "quantity", unit |-> "", p0 |-> a, p1 |-> b] :
        a \in 0 .. 1, b \in 0 .. 1 }
    \cup { [kind |-> "quantity", unit |-> "Hz", p0 |-> a, p1 |-> b] :
        a \in {0, 8, 9}, b \in {0, 8, 9} }
    \cup { [kind |-> "plain", unit |-> "", p0 |-> 0, p1 |-> 1] }

\* roi_moved: the region of interest reports new bounds.
roi_moved(pos) ==
    /\ plotted # <<>>
    /\ Updated(current, pdi, data, pos)
    /\ UNCHANGED <<data, pdi, plotted, pw, dialog, rejected, current>>

\* roi_removed: the region of interest is gone.
roi_removed ==
    /\ selection # NoSelection
    /\ Updated(current, pdi, data, NoSelection)
    /\ UNCHANGED <<data, pdi, plotted, pw, dialog, rejected, current>>

\* current_item_changed: another series of the plot, or none, is current.
current_item_changed(i) ==
    /\ i = 0 \/ InList(plotted, i)
    /\ i # current.plot_item
    /\ current' = [plot_item |-> i]
    /\ Updated(current', pdi, data, selection)
    /\ UNCHANGED <<data, pdi, plotted, pw, dialog, rejected>>

\* update_signal_handler: a direct call of update_statistics; again says
\* that it follows a call on the same selection, spectrum and plot item.
update_signal_handler ==
    /\ sw' = update_statistics(sw, current, CurrentVisible(current, pdi),
                    current.plot_item # 0, CurrentSpectrum(current, data),
                    selection)
    /\ call' = [UpdateCall(current, CurrentVisible(current, pdi),
                    current.plot_item # 0, CurrentSpectrum(current, data),
                    selection)
                EXCEPT !.again = (call.op = "update_statistics")]
    /\ selection' = selected_region_bounds(current,
                    CurrentVisible(current, pdi), current.plot_item # 0,
                    CurrentSpectrum(current, data), selection)
    /\ UNCHANGED <<data, pdi, plotted, pw, dialog, rejected, current>>

\* PlotDataItem.visible setter; update_statistics is not connected to
\* visibility_changed.
set_visible(i, value) ==
    /\ InList(plotted, i)
    /\ pdi[i].visible # value
    /\ pdi' = [pdi EXCEPT ![i] = SetVisible(pdi[i], value)]
    /\ call' = [op |-> "visible", item |-> i, value |-> value,
                trace |-> SetterTrace("visible")]
    /\ UNCHANGED <<data, plotted, pw, dialog, rejected, selection, current, sw>>


NextStats ==
    \/ \E i \in StatItems : AddPlot(i)
    \/ \E i \in StatItems : RemovePlot(i)
    \/ \E pos \in Selections : roi_moved(pos)
    \/ roi_removed
    \/ \E i \in StatItems \cup {0} : current_item_changed(i)
    \/ update_signal_handler
    \/ \E i \in StatItems : \E v \in BOOLEAN : set_visible(i, v)
    \/ \E i \in StatItems : \E ds \in StatData : set_data(i, ds)

\* The statistics widget on a plot whose series, selection and data change.
SpecStats == Init /\ [][NextStats]_vars

----------------------------------------------------------------------------
\* Calls of the PlotDataItem unit setters and of reset_units.  A setter
\* stores the value and then emits its change signal, whose slot set_data
\* (lines 80-81, 194-195) converts the record's data to the stored units.

\* The redraw in the slot: it draws, or the conversion raises in the slot.
Render(p, i) == IF FluxReturns(p, i) THEN "drawn" ELSE "raises"

\* The units a caller hands to a setter.
SetterValues == {"", "Jy", "mJy", "K", "Angstrom", "Hz"}

\* plot_data_item.data_unit = value
set_data_unit(i, value) ==
    /\ InList(plotted, i)
    /\ pdi' = [pdi EXCEPT ![i] = SetDataUnit(pdi[i], value)]
    /\ call' = [op |-> "data_unit", item |-> i, value |-> value,
                render |-> Render(pdi'[i], i),
                trace |-> SetterTrace("data_unit")]
    /\ UNCHANGED <<data, plotted, pw, dialog, rejected, selection, current, sw>>

\* plot_data_item.spectral_axis_unit = value
set_spectral_axis_unit(i, value) ==
    /\ InList(plotted, i)
    /\ pdi' = [pdi EXCEPT ![i] = SetSpectralAxisUnit(pdi[i], value)]
    /\ call' = [op |-> "spectral_axis_unit", item |-> i, value |-> value,
                render |-> Render(pdi'[i], i),
                trace |-> SetterTrace("spectral_axis_unit")]
    /\ UNCHANGED <<data, plotted, pw, dialog, rejected, selection, current, sw>>

\* plot_data_item.reset_units()
reset_units(i) ==
    /\ InList(plotted, i)
    /\ pdi' = [pdi EXCEPT ![i] = ResetUnits(pdi[i], i)]
    /\ call' = [op |-> "reset_units", item |-> i, value |-> None,
                render |-> Render(pdi'[i], i),
                trace |-> SetterTrace("reset_units")]
    /\ UNCHANGED <<data, plotted, pw, dialog, rejected, selection, current, sw>>

\* A read of plot_data_item.spectral_axis and plot_data_item.flux
read(i) ==
    /\ InList(plotted, i)
    /\ call' = [op |-> "read", item |-> i,
                spectral_axis |-> SpectralAxis(pdi[i], i),
                flux |-> Flux(pdi[i], i)]
    /\ UNCHANGED <<data, pdi, plotted, pw, dialog, rejected, selection,
                   current, sw>>

\* The colours, widths and z values a caller hands to the setters.
Colors == {"#000000", "r", "0.5"}

Widths == {1, 3}

Zorders == {0, 5}

\* plot_data_item.color = value
set_color(i, value) ==
    /\ InList(plotted, i)
    /\ pdi' = [pdi EXCEPT ![i] = SetColor(pdi[i], value)]
    /\ call' = [op |-> "color", item |-> i, value |-> value,
                trace |-> SetterTrace("color")]
    /\ UNCHANGED <<data, plotted, pw, dialog, rejected, selection, current, sw>>

\* plot_data_item.width = value
set_width(i, value) ==
    /\ InList(plotted, i)
    /\ pdi' = [pdi EXCEPT ![i] = SetWidth(pdi[i], value)]
    /\ call' = [op |-> "width", item |-> i, value |-> value,
                trace |-> SetterTrace("width")]
    /\ UNCHANGED <<data, plotted, pw, dialog, rejected, selection, current, sw>>

\* plot_data_item.zorder = value
set_zorder(i, value) ==
    /\ InList(plotted, i)
    /\ pdi' = [pdi EXCEPT ![i] = SetZorder(pdi[i], value)]
    /\ call' = [op |-> "zorder", item |-> i, value |-> value,
                trace |-> SetterTrace("zorder")]
    /\ UNCHANGED <<data, plotted, pw, dialog, rejected, selection, current, sw>>

NextItem ==
    \/ \E i \in StatItems : AddPlot(i)
    \/ \E i \in StatItems : RemovePlot(i)
    \/ \E i \in StatItems : \E value \in SetterValues : set_data_unit(i, value)
    \/ \E i \in StatItems : \E value \in SetterValues :
            set_spectral_axis_unit(i, value)
    \/ \E i \in StatItems : reset_units(i)
    \/ \E i \in StatItems : \E ds \in 1 .. Len(Datasets) : set_data(i, ds)
    \/ \E i \in StatItems : read(i)
    \/ \E i \in StatItems : \E value \in Colors : set_color(i, value)
    \/ \E i \in StatItems : \E value \in Widths : set_width(i, value)
    \/ \E i \in StatItems : \E value \in Zorders : set_zorder(i, value)
    \/ \E i \in StatItems : \E value \in BOOLEAN : set_visible(i, value)

\* One series whose display units and whose record's data are changed.
SpecItem == Init /\ [][NextItem]_vars

-----------------------------------------------------------------------------
\* compute_stats on its own, on spectra of up to MaxFlux samples.

\* The spectra handed to compute_stats: every flux over 1 .. 5, on an axis
\* of unit spacing and on one of spacing 3.
Spectra ==
    UNION { { [name |-> "s", flux_unit |-> "Jy",
               spectral_axis_unit |-> "Angstrom",
               spectral_axis |-> [k \in 1 .. n |-> d * k], flux |-> flux] :
                d \in {1, 3}, flux \in [1 .. n -> 1 .. 5] } :
            n \in 1 .. MaxFlux }

\* The spectrum compute_stats is about to be given.
InitCompute ==
    /\ data = [i \in Items |-> i]
    /\ pdi = [i \in Items |-> NoPlotDataItem]
    /\ plotted = <<>>
    /\ pw = Unset
    /\ dialog = NoDialog
    /\ rejected = 0
    /\ selection = NoSelection
    /\ current = [plot_item |-> 0]
    /\ sw = StatisticsWidgetInit
    /\ call \in { [op |-> "spectrum", spectrum |-> spec] : spec \in Spectra }

\* compute_stats(spectrum)
compute ==
    /\ call.op = "spectrum"
    /\ call' = [op |-> "compute_stats", spectrum |-> call.spectrum,
                stats |-> compute_stats(call.spectrum)]
    /\ UNCHANGED <<data, pdi, plotted, pw, dialog, rejected, selection,
                   current, sw>>

NextCompute == compute

SpecCompute == InitCompute /\ [][NextCompute]_vars

----------------------------------------------------------------------------
\* Properties of UnitChangeDialog.on_accepted.  call holds the request, the
\* dialog and the plot as they were when the handler was entered.

Accepted == call.op = "on_accepted"

ReqFlux == DataUnitFormatted(call.dialog, call.req)

ReqSpectral == SpectralAxisUnitFormatted(call.dialog, call.req)

\* Some series of the plot reports the unit incompatible.
SomeDataUnitIncompatible(unit) ==
    \E k \in 1 .. Len(plotted) :
        IsDataUnitCompatible(call.pdi[plotted[k]], plotted[k], unit) = "no"

SomeSpectralAxisUnitIncompatible(unit) ==
    \E k \in 1 .. Len(plotted) :
        IsSpectralAxisUnitCompatible(call.pdi[plotted[k]], plotted[k], unit)
            = "no"

DataUnitsKept == \A i \in Items : pdi[i].data_unit = call.pdi[i].data_unit

SpectralAxisUnitsKept ==
    \A i \in Items : pdi[i].spectral_axis_unit = call.pdi[i].spectral_axis_unit

FluxFails == ReqFlux.status # "ok" \/ SomeDataUnitIncompatible(ReqFlux.unit)

SpectralFails ==
    ReqSpectral.status # "ok" \/ SomeSpectralAxisUnitIncompatible(ReqSpectral.unit)

\* C1: when some series of the plot reports the resolved flux unit
\* incompatible, wherever it stands in the list, on_accepted returns False,
\* the plot's data_unit is the one it was and no series' data_unit changed.
C1_IncompatibleFluxAborts ==
    (Accepted /\ ReqFlux.status = "ok" /\ SomeDataUnitIncompatible(ReqFlux.unit))
        => /\ call.ret = "False"
           /\ pw.data_unit = call.pw.data_unit
           /\ DataUnitsKept

\* The incompatible series is the second of two and the first is compatible.
C1_Witness ==
    /\ Accepted
    /\ ReqFlux.status = "ok"
    /\ Len(plotted) = 2
    /\ IsDataUnitCompatible(call.pdi[plotted[1]], plotted[1], ReqFlux.unit)
            = "yes"
    /\ IsDataUnitCompatible(call.pdi[plotted[2]], plotted[2], ReqFlux.unit)
            = "no"
    /\ ReqFlux.unit # call.pw.data_unit
    /\ call.ret = "False"

\* C2, as claimed: whenever on_accepted returns False both plot units are
\* the ones they were before the call.
C2_FailedRequestChangesNothing ==
    (Accepted /\ call.ret = "False")
        => /\ pw.data_unit = call.pw.data_unit
           /\ pw.spectral_axis_unit = call.pw.spectral_axis_unit

\* C3, as claimed: the axes are applied independently, so a valid spectral
\* request is applied although the flux request failed.
C3_AxesIndependent ==
    (Accepted /\ FluxFails /\ ~SpectralFails)
        => /\ call.ret = "False"
           /\ pw.spectral_axis_unit = ReqSpectral.unit

\* C3, amended: the flux axis goes first.  A failure on it ends the request
\* with nothing changed on either axis; a failure on the spectral axis after
\* a flux request that applied leaves the new flux unit on the plot and on
\* every series of it, and the spectral axis units as they were.  Both
\* return False.
C3_FluxFirstThenSpectral ==
    Accepted =>
        /\ FluxFails =>
              /\ call.ret = "False"
              /\ pw = call.pw
              /\ pdi = call.pdi
        /\ (~FluxFails /\ SpectralFails) =>
              /\ call.ret = "False"
              /\ pw.data_unit = ReqFlux.unit
              /\ \A k \in 1 .. Len(plotted) :
                    pdi[plotted[k]].data_unit = ReqFlux.unit
              /\ pw.spectral_axis_unit = call.pw.spectral_axis_unit
              /\ SpectralAxisUnitsKept

\* Both cases of the amended C3 differ from a request that changes nothing:
\* here the flux unit changed and the spectral request failed.
C3_Witness ==
    /\ Accepted
    /\ ~FluxFails
    /\ SpectralFails
    /\ pw.data_unit # call.pw.data_unit
    /\ plotted # <<>>
    /\ call.ret = "False"

\* A request names a unit on an axis: a listed title, or a custom text that
\* parses and is not blank.
Names(sel, text) ==
    sel # "Custom" \/ (Strip(text) # <<>> /\ ParseUnit(text) # "raise")

NamedUnit(units, titles, sel, text) ==
    IF sel = "Custom" THEN ParseUnit(text) ELSE units[Index(titles, sel)]

NamedFlux ==
    NamedUnit(call.dialog.data_unit_equivalencies,
              call.dialog.data_unit_equivalencies_titles,
              call.req.units, call.req.custom_units)

NamedSpectral ==
    NamedUnit(call.dialog.spectral_axis_unit_equivalencies,
              call.dialog.spectral_axis_unit_equivalencies_titles,
              call.req.spectral, call.req.custom_spectral)

\* The request names two units that every series of the plot accepts.
ValidRequest ==
    /\ Names(call.req.units, call.req.custom_units)
    /\ Names(call.req.spectral, call.req.custom_spectral)
    /\ \A k \in 1 .. Len(plotted) :
        /\ IsDataUnitCompatible(call.pdi[plotted[k]], plotted[k], NamedFlux)
                = "yes"
        /\ IsSpectralAxisUnitCompatible(call.pdi[plotted[k]], plotted[k],
                                        NamedSpectral) = "yes"

\* C4: however many requests were refused before on an incompatible flux
\* unit, a request on a newly opened dialog naming units that every series
\* accepts returns True and leaves both plot units at the units named.
C4_NoLatchedFailure ==
    (Accepted /\ ValidRequest)
        => /\ call.ret = "True"
           /\ pw.data_unit = NamedFlux
           /\ pw.spectral_axis_unit = NamedSpectral

\* A request was refused on its flux unit, and a later one changed both units.
C4_Witness ==
    /\ Accepted
    /\ rejected >= 1
    /\ ValidRequest
    /\ call.ret = "True"
    /\ pw.data_unit # call.pw.data_unit
    /\ pw.spectral_axis_unit # call.pw.spectral_axis_unit

\* C5, as claimed: a custom text that is empty or blank aborts the request;
\* on_accepted returns False and that axis' plot unit is not changed.
C5_BlankCustomAborts ==
    Accepted =>
        /\ (call.req.units = "Custom" /\ Strip(call.req.custom_units) = <<>>)
              => /\ call.ret = "False"
                 /\ pw.data_unit = call.pw.data_unit
        /\ (call.req.spectral = "Custom"
                /\ Strip(call.req.custom_spectral) = <<>>)
              => /\ call.ret = "False"
                 /\ pw.spectral_axis_unit = call.pw.spectral_axis_unit

----------------------------------------------------------------------------
\* Properties of the display units of a PlotDataItem.

\* The stored display units of series i are compatible with its record.
StoredUnitsCompatible(i) ==
    /\ IsDataUnitCompatible(pdi[i], i, pdi[i].data_unit) = "yes"
    /\ IsSpectralAxisUnitCompatible(pdi[i], i, pdi[i].spectral_axis_unit)
            = "yes"

\* C6, as claimed: every series of the plot stores a data_unit and a
\* spectral_axis_unit that its compatibility checks accept.
C6_StoredUnitsAlwaysCompatible ==
    \A k \in 1 .. Len(plotted) : StoredUnitsCompatible(plotted[k])

\* C6, amended: the two setters store the unit they are given, compatible or
\* not, without a check, and a unit the series reports incompatible stays
\* stored while the redraw it triggers raises; the stored units are the
\* record's native units, compatible and drawn, right after reset_units().
C6_SettersStoreUnchecked ==
    /\ call.op = "data_unit"
            => /\ pdi[call.item].data_unit = call.value
               /\ IsDataUnitCompatible(pdi[call.item], call.item, call.value)
                    = "no" => call.render = "raises"
    /\ call.op = "spectral_axis_unit"
            => /\ pdi[call.item].spectral_axis_unit = call.value
               /\ IsSpectralAxisUnitCompatible(pdi[call.item], call.item,
                        call.value) = "no" => call.render = "raises"
    /\ call.op = "reset_units"
            => /\ pdi[call.item].data_unit = spectrum(call.item).flux_unit
               /\ pdi[call.item].spectral_axis_unit
                    = spectrum(call.item).spectral_axis_unit
               /\ StoredUnitsCompatible(call.item)
               /\ call.render = "drawn"

\* A setter was given a unit the series reports incompatible, and stored it.
C6_Witness ==
    /\ call.op = "data_unit"
    /\ spectrum(call.item).flux_unit = "Jy"
    /\ call.value = "Angstrom"
    /\ pdi[call.item].data_unit = "Angstrom"
    /\ call.render = "raises"
    /\ IsDataUnitCompatible(pdi[call.item], call.item, call.value) = "no"

----------------------------------------------------------------------------
\* Properties of StatisticsWidget.update_statistics.  call holds how the
\* call that has just completed ended.

Update == call.op = "update_statistics"

NoStats(W) == DOMAIN W.stats = {}

Cleared(W) == NoStats(W) /\ \A k \in StatKeys : W.texts[k] = <<>>

\* The spectrum of the current plot item, restricted to the region the
\* selection resolves to.
RegionSpectrum ==
    LET spec == CurrentSpectrum(current, data)
        region == get_workspace_region(selection)
    IN IF region.present THEN extract(spec, clip_region(spec, region)) ELSE spec

FailureOutcomes ==
    {"no data", "incompatible units", "out of bound", "single value",
     "extraction", "no units"}

FailureStatuses == { StatusOf(o) : o \in FailureOutcomes }

\* C7: after a call of update_statistics the stats are None or hold all
\* eight keys, computed from the current spectrum restricted to the resolved
\* region; when the call ended in a failure status the stats are None and
\* every stat widget is empty.
C7_StatsWholeOrAbsent ==
    Update =>
        /\ NoStats(sw)
            \/ /\ Computes(call.outcome)
               /\ DOMAIN sw.stats = StatKeys
               /\ sw.stats = compute_stats(RegionSpectrum)
               /\ sw.texts = update_stat_widgets(sw.stats)
        /\ call.outcome \in FailureOutcomes => Cleared(sw)
        /\ sw.status \in FailureStatuses => Cleared(sw)

\* Statistics of a region that holds fewer samples than the spectrum.
C7_Witness ==
    /\ Update
    /\ call.outcome = "region"
    /\ DOMAIN sw.stats = StatKeys
    /\ Len(RegionSpectrum.flux) < Len(CurrentSpectrum(current, data).flux)
    /\ sw.stats # compute_stats(CurrentSpectrum(current, data))

\* C8: every path of update_statistics that produces no statistics clears
\* them and writes exactly one status string, so that none leaves the status
\* of an earlier call beside the cleared statistics.
C8_EveryPathWritesStatus ==
    (Update /\ ~Computes(call.outcome))
        => /\ Cleared(sw)
           /\ call.writes = 1
           /\ sw.status \in FailureStatuses

\* The status a call that computes statistics writes.
SuccessStatus ==
    get_target_name(current.plot_item, CurrentSpectrum(current, data).name,
                    selection)

\* What does hold of the paths past the checks of the plot item and of its
\* visibility: each clears the statistics and writes one status, a string of
\* its own for each cause and none of them the status of a success.
C8_FailuresWriteOneStatus ==
    (Update /\ call.outcome \in FailureOutcomes)
        => /\ Cleared(sw)
           /\ call.writes = 1
           /\ sw.status = StatusOf(call.outcome)
           /\ sw.status # SuccessStatus
           /\ \A o \in FailureOutcomes \ {call.outcome} : StatusOf(o) # sw.status

\* The two early returns clear the statistics and write no status.
C8_EarlyReturnsClear ==
    (Update /\ call.outcome \in {"no plot item", "not visible"})
        => Cleared(sw) /\ call.writes = 0

\* An update on an invisible item: empty statistics beside the status of an
\* earlier success.
C8_Witness ==
    /\ Update
    /\ call.outcome = "not visible"
    /\ Cleared(sw)
    /\ Len(sw.status) > 2
    /\ sw.status[1] = "Data: "

Smaller(a, b) == IF a <= b THEN a ELSE b

Larger(a, b) == IF a >= b THEN a ELSE b

Swapped(pos) == [pos EXCEPT !.p0 = pos.p1, !.p1 = pos.p0]

\* A selection that is a Quantity with a unit and two different bounds.
ProperSelection ==
    selection.kind = "quantity" /\ selection.unit # "" /\
    selection.p0 # selection.p1

\* C9: for a selection with a unit and two different bounds the region has
\* the smaller bound as lower and the larger as upper, in the selection's
\* unit, so a reversed selection ends update_statistics as the ordered one
\* does: same stats, same texts, same status.
C9_BoundsOrdered ==
    ProperSelection =>
        /\ pos_to_spectral_region(selection) =
              SpectralRegion(
                  Quantity(Smaller(selection.p0, selection.p1), selection.unit),
                  Quantity(Larger(selection.p0, selection.p1), selection.unit))
        /\ Update =>
              sw = update_statistics(sw, current, CurrentVisible(current, pdi),
                        current.plot_item # 0, CurrentSpectrum(current, data),
                        Swapped(selection))

\* A reversed selection over the spectrum's domain gave statistics.
C9_Witness ==
    /\ Update
    /\ ProperSelection
    /\ selection.p0 > selection.p1
    /\ call.outcome = "region"
    /\ ~NoStats(sw)

\* A selection that is present and resolves to no region.
DegenerateSelection ==
    /\ selection.kind # "none"
    /\ \/ selection.kind # "quantity"
       \/ selection.unit = ""
       \/ selection.p0 = selection.p1

\* C10: a selection that is no Quantity, has no unit or has equal bounds
\* resolves to no region; update_statistics then clears the statistics and
\* calls neither the unit check nor clip_region nor the pixel mapping; the
\* status "Region over single value." is written only after a pixel mapping
\* that gave two equal indices, for a selection of two different bounds.
C10_DegenerateSelectionIsNoRegion ==
    /\ DegenerateSelection => ~get_workspace_region(selection).present
    /\ (Update /\ DegenerateSelection)
            => /\ Cleared(sw)
               /\ call.called = {}
               /\ call.outcome # "single value"
    /\ (Update /\ call.outcome = "single value")
            => /\ "to_pixel" \in call.called
               /\ selection.p0 # selection.p1
               /\ LET spec == CurrentSpectrum(current, data)
                      idx == to_pixel(spec, clip_region(spec,
                                    get_workspace_region(selection)))
                  IN idx[1] = idx[2]

\* Equal bounds with a unit, on a visible item: no region, cleared.
C10_Witness ==
    /\ Update
    /\ selection.kind = "quantity"
    /\ selection.unit = "Angstrom"
    /\ selection.p0 = selection.p1
    /\ CurrentVisible(current, pdi)
    /\ call.outcome = "no units"
    /\ Cleared(sw)

----------------------------------------------------------------------------
\* Properties of clip_region and of repeated calls of update_statistics.

\* The region the selection resolves to, and the spectrum it is clipped to.
Resolved == get_workspace_region(selection)

\* C11: for a region with lower <= upper, clip_region returns None exactly
\* when lower > axis.max() or upper < axis.min(); otherwise the region it
\* returns has lower = max(lower, axis.min()), upper = min(upper,
\* axis.max()), lies within the axis and keeps a bound that was inside.
C11_ClipRegion ==
    (Update /\ "clip_region" \in call.called) =>
        LET spec == CurrentSpectrum(current, data)
            lo == Base(Resolved.lower)
            up == Base(Resolved.upper)
            amin == Base(AxisMin(spec))
            amax == Base(AxisMax(spec))
        IN /\ lo <= up
           /\ ~call.clipped.present <=> (lo > amax \/ up < amin)
           /\ call.outcome = "out of bound" <=> (lo > amax \/ up < amin)
           /\ call.clipped.present =>
                /\ Base(call.clipped.lower) = Larger(lo, amin)
                /\ Base(call.clipped.upper) = Smaller(up, amax)
                /\ amin <= Base(call.clipped.lower)
                /\ Base(call.clipped.lower) <= Base(call.clipped.upper)
                /\ Base(call.clipped.upper) <= amax
                /\ lo >= amin => call.clipped.lower = Resolved.lower
                /\ up <= amax => call.clipped.upper = Resolved.upper

\* A region that reaches beyond both ends of the axis was clipped to it.
C11_Witness ==
    /\ Update
    /\ call.clipped.present
    /\ Base(Resolved.lower) < Base(AxisMin(CurrentSpectrum(current, data)))
    /\ Base(Resolved.upper) > Base(AxisMax(CurrentSpectrum(current, data)))
    /\ call.clipped.lower = AxisMin(CurrentSpectrum(current, data))
    /\ call.clipped.upper = AxisMax(CurrentSpectrum(current, data))

\* The raw selection is the one the call was given.
C12_SelectionKept == Update => selection = call.pos

\* A call that follows a call on the same selection and spectrum gives what
\* that call gave.
C12_SecondCallSame ==
    (call.op = "update_statistics" /\ call'.op = "update_statistics"
        /\ call'.again)
        => /\ call'.pos = call.pos
           /\ call'.clipped = call.clipped
           /\ call'.idx = call.idx
           /\ call'.outcome = call.outcome
           /\ sw'.status = sw.status
           /\ sw'.stats = sw.stats
           /\ sw'.texts = sw.texts
           /\ UNCHANGED <<selection, data>>

PenOf(p) ==
    [style |-> "pen",
     color |-> IF p.color = "0.5" THEN [float |-> "0.5"] ELSE [name |-> p.color],
     width |-> p.width]

PenFollowsVisible ==
    \A i \in Items :
        InList(plotted, i) =>
            /\ (pdi[i].pen.style = "NoPen") <=> ~pdi[i].visible
            /\ pdi[i].visible => pdi[i].pen = PenOf(pdi[i])

VisibleKeepsColorAndWidth ==
    call'.op = "visible" =>
        /\ pdi'[call'.item].color = pdi[call'.item].color
        /\ pdi'[call'.item].width = pdi[call'.item].width

\* C13: in every state reached through the color, width and visible setters
\* the last pen directive is "no pen" exactly when the series is not
\* visible, and the pen of a visible series carries the stored colour and
\* width; the visible setter leaves colour and width as they were, so that
\* making a series visible again shows them, also when they were set while
\* it was invisible.
C13_PenFollowsVisible ==
    []PenFollowsVisible /\ [][VisibleKeepsColorAndWidth]_vars

\* A series made visible whose colour and width are not those of
\* construction.
C13_Witness ==
    /\ call.op = "visible"
    /\ call.value
    /\ pdi[call.item].color = "r"
    /\ pdi[call.item].width = 3
    /\ pdi[call.item].pen = [style |-> "pen", color |-> [name |-> "r"], width |-> 3]

\* ------------------------------------------------------------------------
\* C14  What each setter of a series sets off.

\* How often a step stands in the trace of a setter.
Count(trace, step) == Cardinality({k \in 1 .. Len(trace) : trace[k] = step})

SetterOps ==
    {"color", "width", "zorder", "visible",
     "data_unit", "spectral_axis_unit", "reset_units"}

\* C14: a color, width or zorder mutation notifies the owning record
\* (emitDataChanged) exactly once; a visibility or display-unit mutation
\* (data_unit, spectral_axis_unit, reset_units) never does; each display-unit
\* mutation re-renders the series once (set_data), reset_units being two
\* such mutations; each color, width or visibility mutation updates the pen
\* once.
C14_ChangePropagation ==
    call.op \in SetterOps =>
        /\ Count(call.trace, "emitDataChanged") =
                IF call.op \in {"color", "width", "zorder"} THEN 1 ELSE 0
        /\ Count(call.trace, "set_data") =
                IF call.op \in {"data_unit", "spectral_axis_unit"} THEN 1
                ELSE IF call.op = "reset_units" THEN 2 ELSE 0
        /\ Count(call.trace, "_update_pen") =
                IF call.op \in {"color", "width", "visible"} THEN 1 ELSE 0

\* A zorder mutation: the record is told, the pen is left alone.
C14_Witness ==
    /\ call.op = "zorder"
    /\ pdi[call.item].zorder = 5
    /\ Count(call.trace, "emitDataChanged") = 1
    /\ Count(call.trace, "_update_pen") = 0

\* ------------------------------------------------------------------------
\* C15  The empty unit in a compatibility check.

\* The units a caller may ask about.
Candidates == Units \cup {None}

\* C15: an empty unit on either side of a compatibility check is
\* compatible: is_data_unit_compatible and is_spectral_axis_unit_compatible
\* return True when the native unit of the record is empty, whatever the
\* candidate (None included), and when the candidate is the empty unit,
\* whatever the native unit.
C15_EmptyUnitAlwaysCompatible ==
    \A i \in Items : \A unit \in Candidates :
        InList(plotted, i) =>
            /\ (spectrum(i).flux_unit = "" \/ unit = "") =>
                    IsDataUnitCompatible(pdi[i], i, unit) = "yes"
            /\ (spectrum(i).spectral_axis_unit = "" \/ unit = "") =>
                    IsSpectralAxisUnitCompatible(pdi[i], i, unit) = "yes"

\* The half the code keeps: an empty native unit is compatible with every
\* candidate.
C15_EmptyNativeCompatible ==
    \A i \in Items : \A unit \in Candidates :
        InList(plotted, i) =>
            /\ spectrum(i).flux_unit = "" =>
                    IsDataUnitCompatible(pdi[i], i, unit) = "yes"
            /\ spectrum(i).spectral_axis_unit = "" =>
                    IsSpectralAxisUnitCompatible(pdi[i], i, unit) = "yes"

\* A series over a record with a flux unit that is asked about the empty
\* unit.
C15_Witness ==
    \E i \in Items :
        /\ InList(plotted, i)
        /\ spectrum(i).flux_unit = "Jy"
        /\ IsDataUnitCompatible(pdi[i], i, "") = "no"
        /\ IsSpectralAxisUnitCompatible(pdi[i], i, "") = "no"

\* ------------------------------------------------------------------------
\* C16  Titles of the dialog's candidates lead back to their units.

\* Every unit of a candidate list is the one on_accepted finds under its
\* title, and the titles are those of the units followed by "Custom".
RoundTrips(units, titles) ==
    /\ Len(titles) = Len(units) + 1
    /\ titles[Len(titles)] = "Custom"
    /\ \A k \in 1 .. Len(units) :
            /\ titles[k] = UnitTitle(units[k])
            /\ Index(titles, titles[k]) = k
            /\ ListedUnit(units, titles, titles[k]).unit = units[k]

\* C16: for every unit at index i of the candidate lists built when the
\* dialog opens, titles.index(title) in on_accepted gives index i again: no
\* two candidates share a title, and the titles stay aligned with the units
\* after the current unit and "Custom" are appended.
C16_TitleRoundTrip ==
    dialog.state = "open" =>
        /\ RoundTrips(dialog.data_unit_equivalencies,
                      dialog.data_unit_equivalencies_titles)
        /\ RoundTrips(dialog.spectral_axis_unit_equivalencies,
                      dialog.spectral_axis_unit_equivalencies_titles)

\* A dialog whose flux candidates end with the appended current unit.
C16_Witness ==
    /\ dialog.state = "open"
    /\ ~Contains(DataUnitEquivalencies(pw), pw.data_unit)
    /\ Len(dialog.data_unit_equivalencies) > 1
    /\ dialog.data_unit_equivalencies[Len(dialog.data_unit_equivalencies)]
            = pw.data_unit
    /\ Contains(dialog.spectral_axis_unit_equivalencies, pw.spectral_axis_unit)

\* ------------------------------------------------------------------------
\* C17  The flux candidates of the dialog.

\* C17: the flux candidates of a dialog are the units reachable from the
\* plot's current flux unit under the spectral-density equivalency, that
\* unit among them; so on a plot holding only the dialog's series every
\* listed flux candidate passes is_data_unit_compatible, and accepting the
\* dialog with a listed flux candidate makes it the plot's flux unit.
C17_FluxCandidatesFromFluxUnit ==
    /\ (dialog.state = "open" /\ Len(plotted) = 1) =>
            /\ Contains(dialog.data_unit_equivalencies, pw.data_unit)
            /\ \A k \in 1 .. Len(dialog.data_unit_equivalencies) :
                /\ IsEquivalent(pw.data_unit,
                                dialog.data_unit_equivalencies[k],
                                "spectral_density")
                /\ IsDataUnitCompatible(pdi[plotted[1]], plotted[1],
                        dialog.data_unit_equivalencies[k]) = "yes"
    /\ (Accepted /\ Len(plotted) = 1 /\ call.req.units # "Custom") =>
            pw.data_unit = ReqFlux.unit

\* A listed flux candidate was chosen on a plot of one series, and the
\* request was refused on it.
C17_Witness ==
    /\ Accepted
    /\ Len(plotted) = 1
    /\ call.req.units = "Meter"
    /\ call.pw.data_unit = "Jy"
    /\ FluxOutcome(call.dialog, call.req, call.pdi, plotted) = "incompatible"
    /\ call.ret = "False"
    /\ pw.data_unit = "Jy"

\* ------------------------------------------------------------------------
\* C18  set_data replaces the data whole, and reads are never stale.

\* The values of a dataset's sequence converted from one unit to another.
Converted(seq, from, to) ==
    [k \in 1 .. Len(seq) |-> ConvertValue(seq[k], from, to)]

\* What a read of the series gives when both arrays are taken from dataset
\* ds and converted to the units the series has now.
ReadOf(ds, p) ==
    [spectral_axis |->
        IF Converts(Datasets[ds].spectral_axis_unit, p.spectral_axis_unit,
                    "spectral")
        THEN [raised |-> FALSE,
              value |-> Converted(Datasets[ds].spectral_axis,
                                  Datasets[ds].spectral_axis_unit,
                                  p.spectral_axis_unit)]
        ELSE Raised,
     flux |->
        IF /\ Converts(Datasets[ds].spectral_axis_unit, p.spectral_axis_unit,
                       "spectral")
           /\ Converts(Datasets[ds].flux_unit, p.data_unit, "spectral_density")
        THEN [raised |-> FALSE,
              value |-> Converted(Datasets[ds].flux, Datasets[ds].flux_unit,
                                  p.data_unit)]
        ELSE Raised]

\* C18: DataItem.set_data replaces the stored spectrum as a whole and leaves
\* identifier and name as they were; after any interleaving of set_data and
\* display-unit changes a read of a series' spectral_axis and flux is the
\* conversion of the data the record holds now to the units the series has
\* now, both arrays from that one dataset.
C18_ReadsAreCurrent ==
    /\ call.op = "set_data" =>
            /\ call.after.NameRole = call.before.NameRole
            /\ call.after.IdRole = call.before.IdRole
            /\ call.after.DataRole = call.value
            /\ data[call.item] = call.value
            /\ spectrum(call.item) = Datasets[call.value]
    /\ call.op = "read" =>
            /\ call.spectral_axis = ReadOf(data[call.item], pdi[call.item]).spectral_axis
            /\ call.flux = ReadOf(data[call.item], pdi[call.item]).flux

\* A read that returns both arrays after the record's data was replaced and
\* the series' spectral axis unit was changed.
C18_Witness ==
    /\ call.op = "read"
    /\ data[call.item] # call.item
    /\ pdi[call.item].spectral_axis_unit # spectrum(call.item).spectral_axis_unit
    /\ ~call.flux.raised
    /\ ~call.spectral_axis.raised

\* ------------------------------------------------------------------------
\* C19  Construction and reset_units give the native units.

\* The display units of series i are the native units of its record.
NativeUnits(p, i) ==
    /\ p.data_unit = spectrum(i).flux_unit
    /\ p.spectral_axis_unit = spectrum(i).spectral_axis_unit

AfterResetUnits ==
    call.op = "reset_units" =>
        /\ NativeUnits(pdi[call.item], call.item)
        /\ ResetUnits(pdi[call.item], call.item) = pdi[call.item]
        /\ Count(call.trace, "data_unit_changed") = 1
        /\ Count(call.trace, "spectral_axis_unit_changed") = 1

\* A step that constructs the series of item i.
Constructs(i) == ~InList(plotted, i) /\ InList(plotted', i)

ConstructionAndSecondReset ==
    /\ \A i \in Items :
        Constructs(i) =>
            /\ pdi'[i].data_unit = Datasets[data'[i]].flux_unit
            /\ pdi'[i].spectral_axis_unit = Datasets[data'[i]].spectral_axis_unit
            /\ ~pdi'[i].visible
    /\ (call.op = "reset_units" /\ call'.op = "reset_units"
            /\ call'.item = call.item) => pdi' = pdi

\* C19: the display units of a PlotDataItem are the native units of its
\* record right after construction, when it is not visible, and right after
\* every reset_units, whatever unit mutations came before; a second
\* reset_units changes nothing, and reset_units emits the change signal of
\* each of the two display units.
C19_ResetUnitsRestoresNative ==
    []AfterResetUnits /\ [][ConstructionAndSecondReset]_vars

\* reset_units on a series whose record holds other data than at
\* construction.
C19_Witness ==
    /\ call.op = "reset_units"
    /\ data[call.item] = 2
    /\ call.item = 1
    /\ pdi[1].data_unit = "K"
    /\ pdi[1].spectral_axis_unit = "nm"

\* ------------------------------------------------------------------------
\* C20  The numbers compute_stats returns.

\* x put into a sorted sequence at its place.
RECURSIVE Insert(_, _)
Insert(sorted, x) ==
    IF sorted = <<>> THEN <<x>>
    ELSE IF x <= Head(sorted) THEN <<x>> \o sorted
    ELSE <<Head(sorted)>> \o Insert(Tail(sorted), x)

RECURSIVE Sorted(_)
Sorted(seq) ==
    IF seq = <<>> THEN <<>> ELSE Insert(Sorted(Tail(seq)), Head(seq))

\* Twice the median of a sequence: the middle of the sorted sequence, or the
\* sum of its two middle elements.
TwiceMedian(seq) ==
    LET n == Len(seq)
        srt == Sorted(seq)
    IN IF n % 2 = 1 THEN 2 * srt[(n + 1) \div 2]
       ELSE srt[n \div 2] + srt[n \div 2 + 1]

\* A fraction <<numerator, denominator>> has the value num / den.
IsValue(fraction, num, den) == fraction[1] * den = num * fraction[2]

\* C20: for every non-empty flux x_0 .. x_{n-1}, compute_stats returns
\* mean = sum / n, the standard median, the extrema as maxval and minval,
\* and total = the trapezoidal integral over the sample index with unit
\* spacing, sum of (x_i + x_{i+1}) / 2 = sum - (x_0 + x_{n-1}) / 2, whatever
\* the spectral axis; for flux 1, 2, 3, 4, 5: mean 3, median 3, minval 1,
\* maxval 5 and total 12.
C20_ComputeStats ==
    call.op = "compute_stats" =>
        LET x == call.spectrum.flux
            n == Len(x)
            st == call.stats
        IN /\ IsValue(st.mean, Sum(x), n)
           /\ IsValue(st.median, TwiceMedian(x), 2)
           /\ st.maxval \in Elements(x)
           /\ st.minval \in Elements(x)
           /\ \A k \in 1 .. n : st.minval <= x[k] /\ x[k] <= st.maxval
           /\ IsValue(st.total, 2 * Sum(x) - x[1] - x[n], 2)
           /\ st = compute_stats([call.spectrum EXCEPT
                        !.spectral_axis = [k \in 1 .. n |-> k]])
           /\ x = <<1, 2, 3, 4, 5>> =>
                /\ IsValue(st.mean, 3, 1)
                /\ IsValue(st.median, 3, 1)
                /\ st.minval = 1
                /\ st.maxval = 5
                /\ IsValue(st.total, 12, 1)

\* compute_stats was given the flux 1, 2, 3, 4, 5 on an axis of spacing 3.
C20_Witness ==
    /\ call.op = "compute_stats"
    /\ call.spectrum.flux = <<1, 2, 3, 4, 5>>
    /\ call.spectrum.spectral_axis = <<3, 6, 9, 12, 15>>
    /\ call.stats.total = <<24, 2>>
    /\ call.stats.mean = <<15, 5>>

\* ------------------------------------------------------------------------
\* C21  The unit check of a region comes before its bounds are looked at.

\* The call went past the checks of the plot item, its visibility and its
\* data, on a region whose unit is of another physical type than the axis.
ForeignRegion ==
    /\ Update
    /\ call.outcome \notin {"no plot item", "not visible", "no data"}
    /\ Resolved.present
    /\ PhysicalType(Resolved.lower.unit) #
            PhysicalType(CurrentSpectrum(current, data).spectral_axis_unit)

ConstructedWithoutUnits ==
    call.op = "UnitChangeDialog" /\ ~UnitsAreSet(call.pw, call.item)

\* C22: when UnitChangeDialog is constructed on a plot whose data_unit or
\* spectral_axis_unit is not set, or without a plot data item, construction
\* completes and the OK button is disabled, so that on_accepted cannot be
\* triggered and the dialog changes no plot unit.
C22_UnsetUnitsDisableOk ==
    ConstructedWithoutUnits =>
        /\ dialog.state = "open"
        /\ ~dialog.ok_enabled
        /\ pw = call.pw

\* The constructor raised on a plot whose only series has no units.
C22_Witness ==
    /\ ConstructedWithoutUnits
    /\ call.item # 0
    /\ call.pw.data_unit = ""
    /\ dialog.state = "raised"
    /\ pw = call.pw

\* ------------------------------------------------------------------------
\* C23  What the early returns of update_statistics and the visible setter
\* leave on display.

\* A call that returns at the check of the plot item or of its visibility
\* empties the statistics and leaves the status text as it was.
EarlyReturnKeepsStatus ==
    (call'.op = "update_statistics"
        /\ call'.outcome \in {"no plot item", "not visible"})
        => /\ NoStats(sw')
           /\ \A k \in StatKeys : sw'.texts[k] = <<>>
           /\ sw'.status = sw.status
           /\ call'.writes = 0

\* The visible setter is no event of the statistics widget.
VisibleKeepsStatistics ==
    call'.op = "visible" =>
        /\ sw' = sw
        /\ \A k \in 1 .. Len(call'.trace) : call'.trace[k] # "update_statistics"

\* C23: update_statistics on a missing plot item or on a plot item that is
\* not visible sets stats to None and empties every stat widget but leaves
\* the status text, so that after a successful update, the item being made
\* invisible and another update, the earlier "Data: <name> ..." status
\* stands beside empty statistics; and as visibility_changed is not
\* connected to update_statistics, the statistics of an item stay on
\* display when it is made invisible, until the next connected event.
C23_StaleStatusAndStatistics ==
    [][EarlyReturnKeepsStatus /\ VisibleKeepsStatistics]_vars

\* The update after the current item was made invisible: the status of the
\* earlier update on a region beside empty statistics.
C23_Witness ==
    /\ Update
    /\ call.outcome = "not visible"
    /\ current.plot_item # 0
    /\ ~pdi[current.plot_item].visible
    /\ NoStats(sw)
    /\ Contains(sw.status, "Region Max: ")
    /\ sw.status[1] = "Data: "

====
